---- MODULE Spec2Model ----
(***************************************************************************)
(* The builtin-command parser of asmase (src/src/Builtins/Parser.cpp): a   *)
(* recursive-descent, precedence-climbing parser.  The C++ call stack is   *)
(* an explicit sequence of frames, the AST nodes live in a heap indexed by *)
(* node id (the C++ pointers), and every action is one straight-line       *)
(* segment of one parser function, from a call's return to the next call.  *)
(***************************************************************************)
EXTENDS Integers, Sequences, FiniteSets, TLC

VARIABLES
    line,       \* the shape the input line was drawn from (history, never read by the parser)
    tokens,     \* the token stream of the line, ending in EOFT
    entry,      \* the entry point called: "parseCommand" or "parseExpression"
    pos,        \* index of the current token (0 before the stream is primed)
    stack,      \* the call stack, innermost frame last
    ret,        \* the value returned by the call that returned last (a node id or NULL)
    heap,       \* the AST nodes allocated so far; a node's id is its index
    freed,      \* ids of the nodes released by a destructor
    diags,      \* the diagnostics reported so far, in order
    phase,      \* "running", "done" (the entry point returned) or "destroyed"
    lastRet,    \* history: the frame, value and cursor of the call that returned last
    recovered   \* history: the token indices discarded by the command loop's recovery

vars == <<line, tokens, entry, pos, stack, ret, heap, freed, diags, phase, lastRet, recovered>>

-----------------------------------------------------------------------------
(* Bounds of the input lines *)

MaxLen == 4
MaxOps == 3
MaxUnary == 2
MaxArgs == 3

NULL == 0

-----------------------------------------------------------------------------
(* Operator tables *)

unaryTokenMap ==
    [PLUS |-> "PLUS", MINUS |-> "MINUS", EXCLAMATION |-> "LOGIC_NEGATE",
     TILDE |-> "BIT_NEGATE"]

binaryTokenMap ==
    [PLUS |-> "ADD", MINUS |-> "SUBTRACT", STAR |-> "MULTIPLY", SLASH |-> "DIVIDE",
     PERCENT |-> "MOD", DOUBLE_EQUAL |-> "EQUALS", EXCLAMATION_EQUAL |-> "NOT_EQUALS",
     GREATER |-> "GREATER_THAN", LESS |-> "LESS_THAN",
     GREATER_EQUAL |-> "GREATER_THAN_OR_EQUALS", LESS_EQUAL |-> "LESS_THAN_OR_EQUALS",
     DOUBLE_AMPERSAND |-> "LOGIC_AND", DOUBLE_PIPE |-> "LOGIC_OR",
     AMPERSAND |-> "BIT_AND", PIPE |-> "BIT_OR", CARET |-> "BIT_XOR",
     DOUBLE_LESS |-> "LEFT_SHIFT", DOUBLE_GREATER |-> "RIGHT_SHIFT"]

binaryPrecedences ==
    [MULTIPLY |-> 700, DIVIDE |-> 700, MOD |-> 700,
     ADD |-> 600, SUBTRACT |-> 600,
     LEFT_SHIFT |-> 500, RIGHT_SHIFT |-> 500,
     GREATER_THAN |-> 400, LESS_THAN |-> 400,
     GREATER_THAN_OR_EQUALS |-> 400, LESS_THAN_OR_EQUALS |-> 400,
     EQUALS |-> 300, NOT_EQUALS |-> 300,
     BIT_AND |-> 266, BIT_XOR |-> 233, BIT_OR |-> 200,
     LOGIC_AND |-> 150, LOGIC_OR |-> 100,
     NONE |-> -1]

tokenTypeToUnaryOpcode(type) ==
    IF type \in DOMAIN unaryTokenMap THEN unaryTokenMap[type] ELSE "NONE"

tokenTypeToBinaryOpcode(type) ==
    IF type \in DOMAIN binaryTokenMap THEN binaryTokenMap[type] ELSE "NONE"

binaryOpPrecedenceNoSentinel(op) ==
    IF op = "NONE" THEN 0 ELSE binaryPrecedences[op]

binaryOpPrecedence(op) == binaryPrecedences[op]

-----------------------------------------------------------------------------
(* The token cursor *)

LeafTypes == {"IDENTIFIER", "INTEGER", "FLOAT", "STRING", "VARIABLE"}

LeafKind(type) ==
    CASE type = "IDENTIFIER" -> "Identifier"
      [] type = "INTEGER" -> "Integer"
      [] type = "FLOAT" -> "Float"
      [] type = "STRING" -> "String"
      [] type = "VARIABLE" -> "Variable"

\* The type of token i; the lexer keeps answering EOFT once the line is used up.
TokenAt(i) == IF i \in 1..Len(tokens) THEN tokens[i] ELSE "EOFT"

\* Token i occupies two columns and is followed by one blank.
columnStart(i) == 3 * (i - 1)
columnEnd(i) == 3 * (i - 1) + 1

currentType(p) == TokenAt(p)
currentStart(p) == columnStart(p)
currentEnd(p) == columnEnd(p)
consumeToken(p) == p + 1

-----------------------------------------------------------------------------
(* Diagnostics *)

error(erringToken, msg) == [msg |-> msg, column |-> columnStart(erringToken)]

-----------------------------------------------------------------------------
(* AST nodes *)

Node(kind, start, end, op, left, right, args) ==
    [kind |-> kind, start |-> start, end |-> end, op |-> op,
     left |-> left, right |-> right, args |-> args]

LeafExpr(type, p) ==
    Node(LeafKind(type), currentStart(p), currentEnd(p), "none", NULL, NULL, <<>>)

UnaryOp(opStart, opEnd, op, operand) ==
    Node("UnaryOp", opStart, opEnd, op, operand, NULL, <<>>)

BinaryOp(opStart, opEnd, op, lhs, rhs) ==
    Node("BinaryOp", opStart, opEnd, op, lhs, rhs, <<>>)

CommandAST(commandStart, commandEnd, args) ==
    Node("Command", commandStart, commandEnd, "none", NULL, NULL, args)

-----------------------------------------------------------------------------
(* Call stack *)

Frame(fn, p, exprPrecedence, lhs) ==
    [fn |-> fn, pc |-> "start",
     exprPrecedence |-> exprPrecedence, lhs |-> lhs,
     op |-> "NONE", opStart |-> 0, opEnd |-> 0, tokenPrecedence |-> -1,
     openParen |-> 0, commandStart |-> 0, commandEnd |-> 0, args |-> <<>>,
     pos0 |-> p, nd0 |-> Len(diags), iterPos |-> p]

Top == stack[Len(stack)]

Running(fn, pc) ==
    /\ phase = "running"
    /\ stack # <<>>
    /\ Top.fn = fn
    /\ Top.pc = pc

\* The running function stays at label pc with its locals updated to f and calls callee.
Call(f, pc, callee) ==
    stack' = Append([stack EXCEPT ![Len(stack)] = [f EXCEPT !.pc = pc]], callee)

\* The running function stays in its frame, at label pc with its locals updated to f.
Goto(f, pc) ==
    stack' = [stack EXCEPT ![Len(stack)] = [f EXCEPT !.pc = pc]]

\* The running function returns v; p and d are the cursor and diagnostics it leaves.
\* lastRet keeps the returning frame and the last callee result it had received.
Return(v, p, d) ==
    /\ stack' = SubSeq(stack, 1, Len(stack) - 1)
    /\ ret' = v
    /\ lastRet' = [frame |-> Top, got |-> ret, val |-> v, pos1 |-> p, nd1 |-> Len(d)]
    /\ phase' = IF Len(stack) = 1 THEN "done" ELSE "running"

-----------------------------------------------------------------------------
(* The input lines *)

SeqsUpTo(S, n) == UNION {[1..k -> S] : k \in 0..n}

RECURSIVE Flatten(_)
Flatten(parts) ==
    IF parts = <<>> THEN <<>> ELSE Head(parts) \o Flatten(Tail(parts))

\* Token types of the free-form lines.
AnyAlphabet == {"INTEGER", "MINUS", "STAR", "OPEN_PAREN", "CLOSE_PAREN", "UNKNOWN"}

\* Binary operator tokens of the operator chains: five precedence levels, one of them twice.
ChainOperators == {"PLUS", "MINUS", "STAR", "AMPERSAND", "DOUBLE_PIPE"}

\* What follows an operator chain before the end of input.
ChainTerminators == {<<>>, <<"CLOSE_PAREN">>, <<"UNKNOWN">>}

UnaryOperators == DOMAIN unaryTokenMap

UnaryPrimaries ==
    {<<"INTEGER">>, <<"OPEN_PAREN", "INTEGER", "PLUS", "INTEGER", "CLOSE_PAREN">>}

UnaryTails == {<<>>} \cup {<<b, "FLOAT">> : b \in DOMAIN binaryTokenMap}

\* Command arguments: well-formed unary or primary expressions, and the invalid token.
ArgItems ==
    {<<"INTEGER">>, <<"IDENTIFIER">>, <<"MINUS", "INTEGER">>, <<"TILDE", "EXCLAMATION", "VARIABLE">>,
     <<"OPEN_PAREN", "INTEGER", "PLUS", "STRING", "CLOSE_PAREN">>, <<"UNKNOWN">>}

\* operand (binop operand)* with INTEGER operands
Chain(ops) ==
    [i \in 1..(2 * Len(ops) + 1) |-> IF i % 2 = 1 THEN "INTEGER" ELSE ops[i \div 2]]

Line(family, fn, parts) == [family |-> family, entry |-> fn, parts |-> parts]

Lines ==
    {Line("any", "parseExpression", <<s>>) : s \in SeqsUpTo(AnyAlphabet, MaxLen)}
    \cup {Line("any", "parseCommand", <<s>>) : s \in SeqsUpTo(AnyAlphabet, 2)}
    \cup {Line("any", "parseCommand", <<<<"IDENTIFIER">> \o s>>) :
            s \in SeqsUpTo(AnyAlphabet, MaxLen - 1)}
    \cup {Line("chain", "parseExpression", <<ops, term>>) :
            ops \in SeqsUpTo(ChainOperators, MaxOps) \cup [1..2 -> DOMAIN binaryTokenMap],
            term \in ChainTerminators}
    \cup {Line("unary", "parseExpression", <<u, p, t>>) :
            u \in SeqsUpTo(UnaryOperators, MaxUnary), p \in UnaryPrimaries, t \in UnaryTails}
    \cup {Line("args", "parseCommand", items) : items \in SeqsUpTo(ArgItems, MaxArgs)}

Tokenize(l) ==
    (CASE l.family = "chain" -> Chain(l.parts[1]) \o l.parts[2]
       [] l.family = "args" -> <<"IDENTIFIER">> \o Flatten(l.parts)
       [] OTHER -> Flatten(l.parts))
    \o <<"EOFT">>

-----------------------------------------------------------------------------
(* Initial state: an entry point has just been called on a fresh line.      *)
(* parseCommand primes the stream itself; parseExpression is called with    *)
(* the first token current.                                                 *)

Init ==
    \E l \in Lines :
        /\ line = l
        /\ tokens = Tokenize(l)
        /\ entry = l.entry
        /\ pos = IF l.entry = "parseCommand" THEN 0 ELSE 1
        /\ diags = <<>>
        /\ stack = <<Frame(l.entry, pos, 0, NULL)>>
        /\ ret = NULL
        /\ heap = <<>>
        /\ freed = {}
        /\ phase = "running"
        /\ lastRet = [frame |-> [fn |-> "none"], got |-> NULL, val |-> NULL, pos1 |-> 0, nd1 |-> 0]
        /\ recovered = <<>>

-----------------------------------------------------------------------------
(* parseExpression *)

parseExpression_Start ==
    /\ Running("parseExpression", "start")
    /\ Call(Top, "lhs", Frame("parseUnaryOpExpr", pos, 0, NULL))
    /\ UNCHANGED <<line, tokens, entry, pos, ret, heap, freed, diags, phase, lastRet, recovered>>

parseExpression_Lhs ==
    /\ Running("parseExpression", "lhs")
    /\ IF ret = NULL
       THEN Return(NULL, pos, diags)
       ELSE /\ Call(Top, "rhs", Frame("parseBinaryOpRHS", pos, 0, ret))
            /\ UNCHANGED <<ret, phase, lastRet>>
    /\ UNCHANGED <<line, tokens, entry, pos, heap, freed, diags, recovered>>

parseExpression_Return ==
    /\ Running("parseExpression", "rhs")
    /\ Return(ret, pos, diags)
    /\ UNCHANGED <<line, tokens, entry, pos, heap, freed, diags, recovered>>

-----------------------------------------------------------------------------
(* parsePrimaryExpr, with parseIdentifierExpr .. parseVariableExpr *)

PrimaryErrorMessage(type) ==
    CASE type = "CLOSE_PAREN" -> "unmatched parentheses"
      [] type = "UNKNOWN" -> "invalid character in input"
      [] OTHER -> "expected primary expression"

parsePrimaryExpr_Leaf ==
    /\ Running("parsePrimaryExpr", "start")
    /\ currentType(pos) \in LeafTypes
    /\ heap' = Append(heap, LeafExpr(currentType(pos), pos))
    /\ pos' = consumeToken(pos)
    /\ Return(Len(heap) + 1, pos', diags)
    /\ UNCHANGED <<line, tokens, entry, freed, diags, recovered>>

parsePrimaryExpr_Paren ==
    /\ Running("parsePrimaryExpr", "start")
    /\ currentType(pos) = "OPEN_PAREN"
    /\ Call(Top, "paren", Frame("parseParenExpr", pos, 0, NULL))
    /\ UNCHANGED <<line, tokens, entry, pos, ret, heap, freed, diags, phase, lastRet, recovered>>

parsePrimaryExpr_Return ==
    /\ Running("parsePrimaryExpr", "paren")
    /\ Return(ret, pos, diags)
    /\ UNCHANGED <<line, tokens, entry, pos, heap, freed, diags, recovered>>

parsePrimaryExpr_Error ==
    /\ Running("parsePrimaryExpr", "start")
    /\ currentType(pos) \notin LeafTypes \cup {"OPEN_PAREN"}
    /\ diags' = Append(diags, error(pos, PrimaryErrorMessage(currentType(pos))))
    /\ Return(NULL, pos, diags')
    /\ UNCHANGED <<line, tokens, entry, pos, heap, freed, recovered>>

-----------------------------------------------------------------------------
(* parseParenExpr *)

parseParenExpr_Open ==
    /\ Running("parseParenExpr", "start")
    /\ pos' = consumeToken(pos)
    /\ Call([Top EXCEPT !.openParen = pos], "inner", Frame("parseExpression", pos', 0, NULL))
    /\ UNCHANGED <<line, tokens, entry, ret, heap, freed, diags, phase, lastRet, recovered>>

\* The diagnostics reported once the inner expression has been parsed.
parseParenExpr_ReportAgain(expr, openParen, p) ==
    IF expr = NULL \/ currentType(p) # "CLOSE_PAREN"
    THEN <<error(openParen, "unmatched parentheses")>>
    ELSE <<>>

parseParenExpr_ReportAtCurrent(expr, openParen, p) ==
    IF expr # NULL /\ currentType(p) # "CLOSE_PAREN"
    THEN <<error(p, "unmatched parentheses")>>
    ELSE <<>>

parseParenExpr_Report(expr, openParen, p) ==
    IF expr # NULL /\ currentType(p) # "CLOSE_PAREN"
    THEN <<error(openParen, "unmatched parentheses")>>
    ELSE <<>>

parseParenExpr_Close ==
    /\ Running("parseParenExpr", "inner")
    /\ diags' = diags \o parseParenExpr_Report(ret, Top.openParen, pos)
    /\ IF ret = NULL \/ currentType(pos) # "CLOSE_PAREN"
       THEN /\ pos' = pos
            /\ Return(NULL, pos', diags')
       ELSE /\ pos' = consumeToken(pos)
            /\ Return(ret, pos', diags')
    /\ UNCHANGED <<line, tokens, entry, heap, freed, recovered>>

-----------------------------------------------------------------------------
(* parseUnaryOpExpr *)

\* The span recorded for an operator: that of the token current at p.
OperatorSpanAfter(p) == [start |-> currentStart(p + 1), end |-> currentEnd(p + 1)]

OperatorSpan(p) == [start |-> currentStart(p), end |-> currentEnd(p)]

\* The parser invoked for the operand of a unary operator.
UnaryOperandParserFull == "parseExpression"

UnaryOperandParser == "parseUnaryOpExpr"

parseUnaryOpExpr_Start ==
    /\ Running("parseUnaryOpExpr", "start")
    /\ LET op == tokenTypeToUnaryOpcode(currentType(pos))
           span == OperatorSpan(pos)
       IN  IF op = "NONE"
           THEN /\ pos' = pos
                /\ Call(Top, "primary", Frame("parsePrimaryExpr", pos, 0, NULL))
           ELSE /\ pos' = consumeToken(pos)
                /\ Call([Top EXCEPT !.op = op, !.opStart = span.start, !.opEnd = span.end],
                        "operand", Frame(UnaryOperandParser, pos', 0, NULL))
    /\ UNCHANGED <<line, tokens, entry, ret, heap, freed, diags, phase, lastRet, recovered>>

parseUnaryOpExpr_Primary ==
    /\ Running("parseUnaryOpExpr", "primary")
    /\ Return(ret, pos, diags)
    /\ UNCHANGED <<line, tokens, entry, pos, heap, freed, diags, recovered>>

parseUnaryOpExpr_Operand ==
    /\ Running("parseUnaryOpExpr", "operand")
    /\ IF ret = NULL
       THEN /\ heap' = heap
            /\ Return(NULL, pos, diags)
       ELSE /\ heap' = Append(heap, UnaryOp(Top.opStart, Top.opEnd, Top.op, ret))
            /\ Return(Len(heap) + 1, pos, diags)
    /\ UNCHANGED <<line, tokens, entry, pos, freed, diags, recovered>>

-----------------------------------------------------------------------------
(* parseBinaryOpRHS *)

\* The loop stops at an operator that binds less tightly than the floor.
BelowFloor(tokenPrecedence, exprPrecedence) == tokenPrecedence < exprPrecedence

\* The right operand is extended when the operator after it binds tighter.
ShouldClimb(tokenPrecedence, nextPrecedence) == tokenPrecedence < nextPrecedence

\* The floor of the recursive call that extends the right operand.
ClimbFloorSame(tokenPrecedence) == tokenPrecedence

ClimbFloor(tokenPrecedence) == tokenPrecedence + 1

\* The parser invoked for the right operand of a binary operator.
BinaryOperandParser == "parseUnaryOpExpr"

parseBinaryOpRHS_Loop ==
    /\ Running("parseBinaryOpRHS", "start")
    /\ LET op == tokenTypeToBinaryOpcode(currentType(pos))
           span == OperatorSpan(pos)
           tokenPrecedence == binaryOpPrecedence(op)
       IN  IF BelowFloor(tokenPrecedence, Top.exprPrecedence)
           THEN /\ pos' = pos
                /\ Return(Top.lhs, pos', diags)
           ELSE /\ pos' = consumeToken(pos)
                /\ Call([Top EXCEPT !.op = op, !.opStart = span.start, !.opEnd = span.end,
                                    !.tokenPrecedence = tokenPrecedence],
                        "rhs", Frame(BinaryOperandParser, pos', 0, NULL))
                /\ UNCHANGED <<ret, phase, lastRet>>
    /\ UNCHANGED <<line, tokens, entry, heap, freed, diags, recovered>>

parseBinaryOpRHS_Rhs ==
    /\ Running("parseBinaryOpRHS", "rhs")
    /\ LET nextOp == tokenTypeToBinaryOpcode(currentType(pos))
           nextPrecedence == binaryOpPrecedence(nextOp)
       IN  IF ret = NULL
           THEN /\ heap' = heap
                /\ Return(NULL, pos, diags)
           ELSE IF ShouldClimb(Top.tokenPrecedence, nextPrecedence)
           THEN /\ heap' = heap
                /\ Call(Top, "climbed",
                        Frame("parseBinaryOpRHS", pos, ClimbFloor(Top.tokenPrecedence), ret))
                /\ UNCHANGED <<ret, phase, lastRet>>
           ELSE /\ heap' = Append(heap, BinaryOp(Top.opStart, Top.opEnd, Top.op, Top.lhs, ret))
                /\ Goto([Top EXCEPT !.lhs = Len(heap) + 1], "start")
                /\ UNCHANGED <<ret, phase, lastRet>>
    /\ UNCHANGED <<line, tokens, entry, pos, freed, diags, recovered>>

parseBinaryOpRHS_Climbed ==
    /\ Running("parseBinaryOpRHS", "climbed")
    /\ IF ret = NULL
       THEN /\ heap' = heap
            /\ Return(NULL, pos, diags)
       ELSE /\ heap' = Append(heap, BinaryOp(Top.opStart, Top.opEnd, Top.op, Top.lhs, ret))
            /\ Goto([Top EXCEPT !.lhs = Len(heap) + 1], "start")
            /\ UNCHANGED <<ret, phase, lastRet>>
    /\ UNCHANGED <<line, tokens, entry, pos, freed, diags, recovered>>

-----------------------------------------------------------------------------
(* parseCommand *)

\* The diagnostic for a line that does not start with a command name.
ExpectedCommandAtEnd(p) == [msg |-> "expected command", column |-> currentEnd(p)]

ExpectedCommand(p) == [msg |-> "expected command", column |-> currentStart(p)]

\* The argument list after one attempt to parse an argument.
CollectArg(args, arg) == IF arg # NULL THEN Append(args, arg) ELSE args

\* The cursor after one attempt to parse an argument: a failure eats one token.
RecoverNothing(arg, p) == p

RecoverTwo(arg, p) == IF arg # NULL THEN p ELSE consumeToken(consumeToken(p))

Recover(arg, p) == IF arg # NULL THEN p ELSE consumeToken(p)

parseCommand_Start ==
    /\ Running("parseCommand", "start")
    /\ LET primed == consumeToken(pos)
       IN  IF currentType(primed) # "IDENTIFIER"
           THEN /\ pos' = primed
                /\ diags' = Append(diags, ExpectedCommand(primed))
                /\ Return(NULL, pos', diags')
           ELSE /\ pos' = consumeToken(primed)
                /\ diags' = diags
                /\ Goto([Top EXCEPT !.commandStart = currentStart(primed),
                                    !.commandEnd = currentEnd(primed),
                                    !.args = <<>>], "loop")
                /\ UNCHANGED <<ret, phase, lastRet>>
    /\ UNCHANGED <<line, tokens, entry, heap, freed, recovered>>

parseCommand_Loop ==
    /\ Running("parseCommand", "loop")
    /\ IF currentType(pos) # "EOFT"
       THEN /\ heap' = heap
            /\ Call([Top EXCEPT !.iterPos = pos], "arg", Frame("parseUnaryOpExpr", pos, 0, NULL))
            /\ UNCHANGED <<ret, phase, lastRet>>
       ELSE /\ heap' = Append(heap, CommandAST(Top.commandStart, Top.commandEnd, Top.args))
            /\ Return(Len(heap) + 1, pos, diags)
    /\ UNCHANGED <<line, tokens, entry, pos, freed, diags, recovered>>

parseCommand_Arg ==
    /\ Running("parseCommand", "arg")
    /\ pos' = Recover(ret, pos)
    /\ recovered' = IF pos' # pos THEN Append(recovered, pos) ELSE recovered
    /\ Goto([Top EXCEPT !.args = CollectArg(Top.args, ret)], "loop")
    /\ UNCHANGED <<line, tokens, entry, ret, heap, freed, diags, phase, lastRet>>

-----------------------------------------------------------------------------
(* Release of the tree *)

\* The ids of the nodes of the tree rooted at id.
RECURSIVE Reach(_)
Reach(id) ==
    IF id = NULL THEN {}
    ELSE {id} \cup Reach(heap[id].left) \cup Reach(heap[id].right)
              \cup UNION {Reach(heap[id].args[i]) : i \in 1..Len(heap[id].args)}

\* The caller deletes the Command: the destructor deletes every argument.
CommandAST_Destroy ==
    /\ phase = "done"
    /\ entry = "parseCommand"
    /\ ret # NULL
    /\ freed' = freed \cup {ret}
                  \cup UNION {Reach(heap[ret].args[i]) : i \in 1..Len(heap[ret].args)}
    /\ phase' = "destroyed"
    /\ UNCHANGED <<line, tokens, entry, pos, stack, ret, heap, diags, lastRet, recovered>>

-----------------------------------------------------------------------------

Next ==
    \/ parseExpression_Start
    \/ parseExpression_Lhs
    \/ parseExpression_Return
    \/ parsePrimaryExpr_Leaf
    \/ parsePrimaryExpr_Paren
    \/ parsePrimaryExpr_Return
    \/ parsePrimaryExpr_Error
    \/ parseParenExpr_Open
    \/ parseParenExpr_Close
    \/ parseUnaryOpExpr_Start
    \/ parseUnaryOpExpr_Primary
    \/ parseUnaryOpExpr_Operand
    \/ parseBinaryOpRHS_Loop
    \/ parseBinaryOpRHS_Rhs
    \/ parseBinaryOpRHS_Climbed
    \/ parseCommand_Start
    \/ parseCommand_Loop
    \/ parseCommand_Arg
    \/ CommandAST_Destroy

Spec == Init /\ [][Next]_vars

-----------------------------------------------------------------------------
(* Fairness: the parser is one sequential thread that keeps running until   *)
(* its entry point returns.                                                 *)

FairSpec == Spec /\ WF_vars(Next)

-----------------------------------------------------------------------------
(* Trees, as values *)

\* The tree rooted at node id: kind, span, opcode and children in order.
RECURSIVE Tree(_)
Tree(id) ==
    LET n == heap[id]
    IN  [kind |-> n.kind, start |-> n.start, end |-> n.end, op |-> n.op,
         kids |-> CASE n.kind = "UnaryOp" -> <<Tree(n.left)>>
                    [] n.kind = "BinaryOp" -> <<Tree(n.left), Tree(n.right)>>
                    [] OTHER -> [i \in 1..Len(n.args) |-> Tree(n.args[i])]]

\* The tree with the given kind and opcode whose span is token i.
T(kind, i, op, kids) ==
    [kind |-> kind, start |-> columnStart(i), end |-> columnEnd(i), op |-> op, kids |-> kids]

Done == phase # "running"

ParseFunctions ==
    {"parseExpression", "parsePrimaryExpr", "parseParenExpr", "parseUnaryOpExpr",
     "parseBinaryOpRHS"}

-----------------------------------------------------------------------------
(* C1: operator-precedence grouping *)

\* The binding strength of a binary operator token, from the grouping the
\* design states: multiplicative > additive > shift > relational > equality >
\* bit-AND > bit-XOR > bit-OR > logical-AND > logical-OR.
RefLevel(type) ==
    CASE type \in {"STAR", "SLASH", "PERCENT"} -> 10
      [] type \in {"PLUS", "MINUS"} -> 9
      [] type \in {"DOUBLE_LESS", "DOUBLE_GREATER"} -> 8
      [] type \in {"GREATER", "LESS", "GREATER_EQUAL", "LESS_EQUAL"} -> 7
      [] type \in {"DOUBLE_EQUAL", "EXCLAMATION_EQUAL"} -> 6
      [] type = "AMPERSAND" -> 5
      [] type = "CARET" -> 4
      [] type = "PIPE" -> 3
      [] type = "DOUBLE_AMPERSAND" -> 2
      [] type = "DOUBLE_PIPE" -> 1

RefOpcode(type) ==
    CASE type = "PLUS" -> "ADD" [] type = "MINUS" -> "SUBTRACT"
      [] type = "STAR" -> "MULTIPLY" [] type = "SLASH" -> "DIVIDE"
      [] type = "PERCENT" -> "MOD" [] type = "DOUBLE_EQUAL" -> "EQUALS"
      [] type = "EXCLAMATION_EQUAL" -> "NOT_EQUALS"
      [] type = "GREATER" -> "GREATER_THAN" [] type = "LESS" -> "LESS_THAN"
      [] type = "GREATER_EQUAL" -> "GREATER_THAN_OR_EQUALS"
      [] type = "LESS_EQUAL" -> "LESS_THAN_OR_EQUALS"
      [] type = "DOUBLE_AMPERSAND" -> "LOGIC_AND" [] type = "DOUBLE_PIPE" -> "LOGIC_OR"
      [] type = "AMPERSAND" -> "BIT_AND" [] type = "PIPE" -> "BIT_OR"
      [] type = "CARET" -> "BIT_XOR" [] type = "DOUBLE_LESS" -> "LEFT_SHIFT"
      [] type = "DOUBLE_GREATER" -> "RIGHT_SHIFT"

\* The reference grouping of operands lo..hi of a chain (operand k is token
\* 2k-1, operator k is token 2k): split at the last operator of the lowest
\* binding strength, so that tighter operators nest deeper and equal ones
\* group to the left.
RECURSIVE RefTree(_, _, _)
RefTree(ops, lo, hi) ==
    IF lo = hi THEN T("Integer", 2 * lo - 1, "none", <<>>)
    ELSE LET weakest == CHOOSE j \in lo..(hi - 1) :
                            \A k \in lo..(hi - 1) :
                                \/ RefLevel(ops[j]) < RefLevel(ops[k])
                                \/ RefLevel(ops[j]) = RefLevel(ops[k]) /\ k <= j
         IN  T("BinaryOp", 2 * weakest, RefOpcode(ops[weakest]),
               <<RefTree(ops, lo, weakest), RefTree(ops, weakest + 1, hi)>>)

\* The BinaryOp node built for operator j of a chain.
ChainNode(j) ==
    CHOOSE id \in 1..Len(heap) :
        heap[id].kind = "BinaryOp" /\ heap[id].start = columnStart(2 * j)

\* C1: parseExpression on operand (binop operand)* followed by a non-operator
\* token returns the reference grouping, stops on that token and reports
\* nothing; an operator that binds tighter than its left neighbour has the
\* shared operand as its left child and lies in the neighbour's right subtree,
\* and any other operator has its left neighbour in its left subtree.
C1_PrecedenceGrouping ==
    (line.family = "chain" /\ Done) =>
        LET ops == line.parts[1]
            n == Len(ops)
        IN  /\ ret # NULL
            /\ Tree(ret) = RefTree(ops, 1, n + 1)
            /\ pos = 2 * n + 2
            /\ diags = <<>>
            /\ \A j \in 2..n :
                  IF RefLevel(ops[j]) > RefLevel(ops[j - 1])
                  THEN /\ Tree(heap[ChainNode(j)].left) = T("Integer", 2 * j - 1, "none", <<>>)
                       /\ ChainNode(j) \in Reach(heap[ChainNode(j - 1)].right)
                  ELSE ChainNode(j - 1) \in Reach(heap[ChainNode(j)].left)

\* 2 + 3 * 4 - 5 has been parsed to SUBTRACT(ADD(2, MULTIPLY(3, 4)), 5).
C1_Witness ==
    /\ line.family = "chain"
    /\ line.parts[1] = <<"PLUS", "STAR", "MINUS">>
    /\ Done
    /\ ret # NULL
    /\ Tree(ret) =
         T("BinaryOp", 6, "SUBTRACT",
           <<T("BinaryOp", 2, "ADD",
               <<T("Integer", 1, "none", <<>>),
                 T("BinaryOp", 4, "MULTIPLY",
                   <<T("Integer", 3, "none", <<>>), T("Integer", 5, "none", <<>>)>>)>>),
             T("Integer", 7, "none", <<>>)>>)

-----------------------------------------------------------------------------
(* C2: command-argument recovery *)

\* The tree of a well-formed argument whose first token is token b.
ItemTree(item, b) ==
    CASE item = <<"INTEGER">> -> T("Integer", b, "none", <<>>)
      [] item = <<"IDENTIFIER">> -> T("Identifier", b, "none", <<>>)
      [] item = <<"MINUS", "INTEGER">> ->
            T("UnaryOp", b, "MINUS", <<T("Integer", b + 1, "none", <<>>)>>)
      [] item = <<"TILDE", "EXCLAMATION", "VARIABLE">> ->
            T("UnaryOp", b, "BIT_NEGATE",
              <<T("UnaryOp", b + 1, "LOGIC_NEGATE", <<T("Variable", b + 2, "none", <<>>)>>)>>)
      [] item = <<"OPEN_PAREN", "INTEGER", "PLUS", "STRING", "CLOSE_PAREN">> ->
            T("BinaryOp", b + 2, "ADD",
              <<T("Integer", b + 1, "none", <<>>), T("String", b + 3, "none", <<>>)>>)

\* The index of the first token of item i of a command line (token 1 is the name).
ItemStart(items, i) == 2 + Len(Flatten(SubSeq(items, 1, i - 1)))

\* The trees of the well-formed items from item i on, in source order.
RECURSIVE ExpectedArgs(_, _)
ExpectedArgs(items, i) ==
    IF i > Len(items) THEN <<>>
    ELSE (IF items[i] = <<"UNKNOWN">> THEN <<>>
          ELSE <<ItemTree(items[i], ItemStart(items, i))>>)
         \o ExpectedArgs(items, i + 1)

\* The indices of the invalid tokens from item i on, in source order.
RECURSIVE InvalidTokens(_, _)
InvalidTokens(items, i) ==
    IF i > Len(items) THEN <<>>
    ELSE (IF items[i] = <<"UNKNOWN">> THEN <<ItemStart(items, i)>> ELSE <<>>)
         \o InvalidTokens(items, i + 1)

\* C2: a line that starts with a command name always yields a Command; when
\* its arguments are well-formed unary/primary expressions with invalid tokens
\* between them, the Command holds exactly the well-formed arguments in
\* source order, recovery discarded exactly the invalid tokens, one per
\* failed attempt, and each invalid token was reported once.
C2_ArgumentRecovery ==
    (entry = "parseCommand" /\ Done /\ TokenAt(1) = "IDENTIFIER") =>
        /\ ret # NULL
        /\ heap[ret].kind = "Command"
        /\ line.family = "args" =>
              LET invalid == InvalidTokens(line.parts, 1)
              IN  /\ Tree(ret) = T("Command", 1, "none", ExpectedArgs(line.parts, 1))
                  /\ recovered = invalid
                  /\ diags = [i \in 1..Len(invalid) |->
                                [msg |-> "invalid character in input",
                                 column |-> columnStart(invalid[i])]]
                  /\ pos = Len(tokens)

\* "cmd 1 @ 2" has been parsed to a Command with arguments [1, 2] and one diagnostic.
C2_Witness ==
    /\ line.family = "args"
    /\ line.parts = <<(<<"INTEGER">>), (<<"UNKNOWN">>), (<<"INTEGER">>)>>
    /\ Done
    /\ ret # NULL
    /\ Tree(ret) = T("Command", 1, "none",
                     <<T("Integer", 2, "none", <<>>), T("Integer", 4, "none", <<>>)>>)
    /\ Len(diags) = 1
    /\ recovered = <<3>>

-----------------------------------------------------------------------------
(* C3: one diagnostic per failed parse *)

\* C3: every call of a parse function (parseExpression, the unary parser of a
\* command argument, and the primary, parenthesized and binary parsers they
\* enclose) has reported exactly one diagnostic when it returns absent and
\* none when it returns a tree.
C3_OneDiagnosticPerFailure ==
    lastRet.frame.fn \in ParseFunctions =>
        IF lastRet.val = NULL
        THEN lastRet.nd1 = lastRet.frame.nd0 + 1
        ELSE lastRet.nd1 = lastRet.frame.nd0

\* A parenthesized parse has just passed on the failure of its inner
\* expression, which a binary parse had itself passed on from its operand.
C3_Witness ==
    /\ lastRet.frame.fn = "parseParenExpr"
    /\ lastRet.got = NULL
    /\ lastRet.val = NULL
    /\ lastRet.nd1 = lastRet.frame.nd0 + 1
    /\ diags[Len(diags)].column > columnStart(lastRet.frame.pos0 + 1)
    /\ Len(heap) > 0

-----------------------------------------------------------------------------
(* C4: where unmatched parentheses are reported *)

\* C4: a group whose inner expression parsed but whose closing delimiter is
\* missing returns absent without consuming, with one "unmatched parentheses"
\* at the column of its own opening delimiter; a closing delimiter where a
\* primary expression is expected is reported at its own column and not consumed.
C4_UnmatchedParentheses ==
    /\ (lastRet.frame.fn = "parseParenExpr" /\ lastRet.got # NULL) =>
          IF lastRet.val = NULL
          THEN /\ TokenAt(lastRet.pos1) # "CLOSE_PAREN"
               /\ TokenAt(lastRet.frame.pos0) = "OPEN_PAREN"
               /\ lastRet.nd1 = lastRet.frame.nd0 + 1
               /\ diags[lastRet.nd1] =
                     [msg |-> "unmatched parentheses",
                      column |-> columnStart(lastRet.frame.pos0)]
          ELSE /\ lastRet.val = lastRet.got
               /\ TokenAt(lastRet.pos1 - 1) = "CLOSE_PAREN"
               /\ lastRet.nd1 = lastRet.frame.nd0
    /\ (lastRet.frame.fn = "parsePrimaryExpr"
          /\ TokenAt(lastRet.frame.pos0) = "CLOSE_PAREN") =>
          /\ lastRet.val = NULL
          /\ lastRet.pos1 = lastRet.frame.pos0
          /\ lastRet.nd1 = lastRet.frame.nd0 + 1
          /\ diags[lastRet.nd1] =
                [msg |-> "unmatched parentheses",
                 column |-> columnStart(lastRet.frame.pos0)]

\* An inner group, opened after the first token, has just failed for want of
\* its closing delimiter: the diagnostic names its opening column.
C4_Witness ==
    /\ lastRet.frame.fn = "parseParenExpr"
    /\ lastRet.got # NULL
    /\ lastRet.val = NULL
    /\ lastRet.frame.pos0 > 1
    /\ lastRet.pos1 > lastRet.frame.pos0 + 1
    /\ diags = <<[msg |-> "unmatched parentheses",
                  column |-> columnStart(lastRet.frame.pos0)]>>

-----------------------------------------------------------------------------
(* C5: source spans *)

Min(S) == CHOOSE x \in S : \A y \in S : x <= y
Max(S) == CHOOSE x \in S : \A y \in S : y <= x

\* The first and last column of the text the tree rooted at id was built from.
ExtentStart(id) == Min({heap[n].start : n \in Reach(id)})
ExtentEnd(id) == Max({heap[n].end : n \in Reach(id)})

\* C5 as stated: the span of every UnaryOp and BinaryOp node of a returned
\* tree contains the spans of all its operands.
C5_SpanCoversOperands ==
    (Done /\ ret # NULL) =>
        \A id \in Reach(ret) :
            heap[id].kind \in {"UnaryOp", "BinaryOp"} =>
                \A c \in Reach(id) :
                    heap[id].start <= heap[c].start /\ heap[c].end <= heap[id].end

\* C5 amended: the span of every node of a returned tree is exactly one token:
\* a leaf's own token, the operator token of a UnaryOp or BinaryOp (its operand
\* lies wholly after it, resp. its operands wholly on either side of it), and
\* the command name of a Command (its arguments lie wholly after it).
C5_SpanIsOwnToken ==
    (Done /\ ret # NULL) =>
        \A id \in Reach(ret) :
            LET n == heap[id]
            IN  \E i \in 1..Len(tokens) :
                    /\ n.start = columnStart(i)
                    /\ n.end = columnEnd(i)
                    /\ CASE n.kind = "UnaryOp" ->
                              /\ TokenAt(i) \in DOMAIN unaryTokenMap
                              /\ unaryTokenMap[TokenAt(i)] = n.op
                              /\ n.end < ExtentStart(n.left)
                         [] n.kind = "BinaryOp" ->
                              /\ TokenAt(i) \in DOMAIN binaryTokenMap
                              /\ RefOpcode(TokenAt(i)) = n.op
                              /\ ExtentEnd(n.left) < n.start
                              /\ n.end < ExtentStart(n.right)
                         [] n.kind = "Command" ->
                              /\ i = 1
                              /\ \A a \in 1..Len(n.args) : n.end < ExtentStart(n.args[a])
                         [] OTHER ->
                              /\ TokenAt(i) \in LeafTypes
                              /\ LeafKind(TokenAt(i)) = n.kind

\* A returned tree whose root is a BinaryOp with a UnaryOp below it.
C5_Witness ==
    /\ Done
    /\ ret # NULL
    /\ heap[ret].kind = "BinaryOp"
    /\ \E id \in Reach(ret) : heap[id].kind = "UnaryOp"
    /\ heap[ret].start > ExtentStart(ret)
    /\ heap[ret].end < ExtentEnd(ret)

-----------------------------------------------------------------------------
(* C6: unary operators *)

\* The tree of the primary of a unary line whose first token is token b.
PrimaryTree(p, b) ==
    IF p = <<"INTEGER">> THEN T("Integer", b, "none", <<>>)
    ELSE T("BinaryOp", b + 2, "ADD",
           <<T("Integer", b + 1, "none", <<>>), T("Integer", b + 3, "none", <<>>)>>)

\* Unary operators j..Len(u) of the chain u, nested in token order around the primary.
RECURSIVE UnaryChainTree(_, _, _)
UnaryChainTree(u, j, p) ==
    IF j > Len(u) THEN PrimaryTree(p, j)
    ELSE T("UnaryOp", j,
           CASE u[j] = "PLUS" -> "PLUS" [] u[j] = "MINUS" -> "MINUS"
             [] u[j] = "EXCLAMATION" -> "LOGIC_NEGATE" [] u[j] = "TILDE" -> "BIT_NEGATE",
           <<UnaryChainTree(u, j + 1, p)>>)

\* C6: a chain of k unary operators before a primary parses to k nested UnaryOp
\* nodes in token order around that primary alone; a binary operator after
\* the primary takes the whole unary chain as its left operand; a
\* parenthesized group adds no node of its own.
C6_UnaryBindsTightest ==
    (line.family = "unary" /\ Done) =>
        LET u == line.parts[1]
            p == line.parts[2]
            t == line.parts[3]
            tail == Len(u) + Len(p) + 1
        IN  /\ ret # NULL
            /\ diags = <<>>
            /\ Tree(ret) =
                  IF t = <<>> THEN UnaryChainTree(u, 1, p)
                  ELSE T("BinaryOp", tail, RefOpcode(t[1]),
                         <<UnaryChainTree(u, 1, p), T("Float", tail + 1, "none", <<>>)>>)
            /\ Cardinality(Reach(ret)) =
                  Len(u) + (IF p = <<"INTEGER">> THEN 1 ELSE 3) + Len(t)

\* "- ~ ( 1 + 2 ) * 3.0" has been parsed to MULTIPLY(MINUS(BIT_NEGATE(ADD(1, 2))), 3.0).
C6_Witness ==
    /\ line.family = "unary"
    /\ line.parts = <<(<<"MINUS", "TILDE">>),
                      (<<"OPEN_PAREN", "INTEGER", "PLUS", "INTEGER", "CLOSE_PAREN">>),
                      (<<"STAR", "FLOAT">>)>>
    /\ Done
    /\ ret # NULL
    /\ heap[ret].kind = "BinaryOp"
    /\ heap[ret].op = "MULTIPLY"
    /\ heap[heap[ret].left].op = "MINUS"
    /\ heap[heap[heap[ret].left].left].op = "BIT_NEGATE"
    /\ heap[heap[heap[heap[ret].left].left].left].op = "ADD"

-----------------------------------------------------------------------------
(* C7: termination *)

\* Every returned call that parses an expression, and every recursive call of
\* the climbing loop (its floor is above 0), consumed a token or failed
\* without consuming; every finished iteration of the argument loop moved the
\* cursor; a returned Command left the cursor on end of input.
C7_Progress ==
    /\ (\/ lastRet.frame.fn \in ParseFunctions \ {"parseBinaryOpRHS"}
        \/ lastRet.frame.fn = "parseBinaryOpRHS" /\ lastRet.frame.exprPrecedence > 0) =>
          \/ lastRet.pos1 > lastRet.frame.pos0
          \/ lastRet.val = NULL /\ lastRet.pos1 = lastRet.frame.pos0
    /\ Running("parseCommand", "loop") => pos > Top.iterPos
    /\ (entry = "parseCommand" /\ Done /\ ret # NULL) => currentType(pos) = "EOFT"

\* C7: every parse makes progress in the sense of C7_Progress and ends: the
\* entry point returns.
C7_Termination == []C7_Progress /\ <>Done

\* A command whose argument loop ran three times, one of them a recovery, has returned.
C7_Witness ==
    /\ entry = "parseCommand"
    /\ Done
    /\ ret # NULL
    /\ Len(heap[ret].args) = 2
    /\ Len(recovered) = 1
    /\ \E id \in 1..Len(heap) : heap[id].kind = "BinaryOp"

-----------------------------------------------------------------------------
(* C8: missing command name *)

\* C8: when the first token is not an identifier, parseCommand calls no
\* parser, and returns absent with the cursor on that token, no node built,
\* nothing discarded and the single diagnostic "expected command" at that
\* token's column.
C8_ExpectedCommand ==
    (entry = "parseCommand" /\ TokenAt(1) # "IDENTIFIER") =>
        /\ Len(stack) <= 1
        /\ heap = <<>>
        /\ recovered = <<>>
        /\ IF Done
           THEN /\ ret = NULL
                /\ pos = 1
                /\ diags = <<[msg |-> "expected command", column |-> columnStart(1)]>>
                /\ lastRet.frame.fn = "parseCommand"
           ELSE pos = 0 /\ diags = <<>>

\* parseCommand has returned absent on a line that starts with a literal and holds more tokens.
C8_Witness ==
    /\ entry = "parseCommand"
    /\ TokenAt(1) = "INTEGER"
    /\ Len(tokens) > 2
    /\ Done
    /\ ret = NULL
    /\ Len(diags) = 1

-----------------------------------------------------------------------------
(* C9: ownership of the nodes *)

\* C9 as stated: when a parse has returned, every node allocated during it
\* belongs to the returned tree, and once the Command is destroyed every
\* node has been released.
C9_NoLeak ==
    /\ phase = "done" => 1..Len(heap) = Reach(ret)
    /\ phase = "destroyed" => 1..Len(heap) = freed

-----------------------------------------------------------------------------
(* C10: the NONE sentinel *)

RealBinaryOpcodes == DOMAIN binaryPrecedences \ {"NONE"}

\* C10: the floor of every call of the climbing loop is at least 0 and NONE
\* has precedence -1, below every real operator; the loop consumes only
\* binary operator tokens and, when it returns a tree, returns its left
\* operand with the cursor on the token it stopped at; no UnaryOp or BinaryOp
\* node carries NONE.
C10_NoneNeverInTree ==
    /\ binaryOpPrecedence("NONE") = -1
    /\ \A op \in RealBinaryOpcodes : binaryOpPrecedence(op) > binaryOpPrecedence("NONE")
    /\ \A i \in 1..Len(stack) :
          stack[i].fn = "parseBinaryOpRHS" =>
              /\ stack[i].exprPrecedence >= 0
              /\ stack[i].pc # "start" =>
                    /\ stack[i].op \in RealBinaryOpcodes
                    /\ stack[i].tokenPrecedence >= stack[i].exprPrecedence
    /\ (lastRet.frame.fn = "parseBinaryOpRHS" /\ lastRet.val # NULL) =>
          /\ lastRet.frame.pc = "start"
          /\ lastRet.val = lastRet.frame.lhs
          /\ binaryOpPrecedence(tokenTypeToBinaryOpcode(TokenAt(lastRet.pos1)))
                < lastRet.frame.exprPrecedence
    /\ \A id \in 1..Len(heap) :
          /\ heap[id].kind = "UnaryOp" =>
                heap[id].op \in {"PLUS", "MINUS", "LOGIC_NEGATE", "BIT_NEGATE"}
          /\ heap[id].kind = "BinaryOp" => heap[id].op \in RealBinaryOpcodes

\* The climbing loop, at floor 0 and holding a BinaryOp, has just returned it
\* at an invalid token, which stays current.
C10_Witness ==
    /\ lastRet.frame.fn = "parseBinaryOpRHS"
    /\ lastRet.frame.exprPrecedence = 0
    /\ lastRet.val # NULL
    /\ heap[lastRet.val].kind = "BinaryOp"
    /\ TokenAt(lastRet.pos1) = "UNKNOWN"
    /\ pos = lastRet.pos1

-----------------------------------------------------------------------------
(* C11: recovery at end of input *)

\* C11 as stated: in a run of parseCommand no token discarded by the
\* recovery step is the end-of-input token, the cursor never moves past the
\* end-of-input token, and a returned Command leaves the cursor exactly on it.
C11_RecoveryNeverEatsEOF ==
    entry = "parseCommand" =>
        /\ \A i \in 1..Len(recovered) : TokenAt(recovered[i]) # "EOFT"
        /\ pos <= Len(tokens)
        /\ (Done /\ ret # NULL) => pos = Len(tokens)

====
